---- MODULE Spec2Model ----
(***************************************************************************)
(* static_boost_object_pool.cpp: a boost::object_pool<Thing> whose         *)
(* UserAllocator hands out one static char array exactly once.             *)
(*                                                                         *)
(* The allocator (StaticUserAllocator) and main are translated from the    *)
(* source file.  The pool itself is boost::object_pool / boost::pool /     *)
(* boost::simple_segregated_storage, which the source includes (line 33)   *)
(* and instantiates (lines 114-117); its operations are translated from    *)
(* the Boost.Pool headers as the source uses them: an intrusive free list  *)
(* kept in address order inside the chunks, a block trailer of two words,  *)
(* and the retry with a halved request that the comment at lines 69-72     *)
(* describes.  An LP64 build is assumed: int has 4 bytes, size_t and       *)
(* pointers have 8.                                                        *)
(***************************************************************************)
EXTENDS Integers, Sequences, FiniteSets, TLC

(* ------------------------------ bounds -------------------------------- *)

\* Thing constructor invocations allowed in one run of the generic client.
MaxConstructs == 8

\* The generic client passes construct an int from 1..MaxValue.
MaxValue == 2

\* main is run with static_block placed at one of NumBases addresses.
NumBases == 3

\* CfgSpec compiles the pool with a capacity within CapSpread of the source's.
CapSpread == 1

\* Thing constructor invocations allowed in one run of SeqSpec.
MaxSeqConstructs == 3

(* ------------------------- program constants -------------------------- *)

STATIC_POOL_CAPACITY == 6

\* sizeof(Thing): one int member p.
sizeof_Thing == 4

\* sizeof(size_t), which is also the size of a pointer on the build assumed.
sizeof_size_type == 8

\* Faulty variant: the size lines 51-52 warn against, capacity times slot size.
REQUIRED_SIZE_naive == STATIC_POOL_CAPACITY * sizeof_size_type

REQUIRED_SIZE == 64

\* alignof(Thing): that of its int member.
alignof_Thing == 4

NULL == 0

\* alignas(sizeof(Thing)) static char static_block[REQUIRED_SIZE]: the
\* addresses the array may be placed at are multiples of sizeof(Thing).
LowBase == 1024 * sizeof_Thing

Bases == { LowBase + sizeof_Thing * k : k \in 0..(NumBases - 1) }

Values == 1..MaxValue

Capacities == (STATIC_POOL_CAPACITY - CapSpread)..(STATIC_POOL_CAPACITY + CapSpread)

VARIABLES
    static_block,              \* address of the static array
    StaticUserAllocator_full,  \* the exhaustion flag
    capacity,                  \* STATIC_POOL_CAPACITY as compiled into the pool's arguments
    pool,                      \* the object_pool's fields
    mem,                       \* contents of the chunks of static_block that were written
    live,                      \* Thing objects within their lifetime: address -> constructor argument
    ctors,                     \* Thing constructor invocations so far
    dtors,                     \* Thing destructor invocations so far
    grants,                    \* malloc calls that returned static_block so far
    last,                      \* what the latest operation did and printed
    status,                    \* "running", "exit1" (exit(1) was called) or "returned" (return 0)
    pc,                        \* position of the caller
    t,                         \* main's handles t1..t11
    out                        \* main's "tN is null / not null" lines

vars == << static_block, StaticUserAllocator_full, capacity, pool, mem, live,
           ctors, dtors, grants, last, status, pc, t, out >>

(* ----------------------------- helpers -------------------------------- *)

Max(a, b) == IF a >= b THEN a ELSE b

Min(a, b) == IF a <= b THEN a ELSE b

\* A chunk holds either a free-list link or a Thing (its int p).
Link(ptr) == [tag |-> "link", val |-> ptr]

ThingAt(p) == [tag |-> "Thing", val |-> p]

Store(m, a, x) == [b \in (DOMAIN m) \cup {a} |-> IF b = a THEN x ELSE m[b]]

\* nextof(ptr): the word at ptr read as a pointer (static storage starts zeroed).
nextof(m, a) == IF a \in DOMAIN m THEN m[a].val ELSE NULL

(* ------------------------ StaticUserAllocator ------------------------- *)

\* One malloc call made while the flag has value full: what it returns, the
\* flag afterwards, and whether it called exit(1).
\* Faulty variant: line 92 left out, the flag is never set.
malloc_unflagged(full, s) ==
    IF ~full
    THEN IF s # REQUIRED_SIZE
         THEN [ret |-> NULL, full |-> full, exit |-> TRUE]
         ELSE [ret |-> static_block, full |-> full, exit |-> FALSE]
    ELSE [ret |-> NULL, full |-> full, exit |-> FALSE]

\* Faulty variant: the size check of lines 84-87 left out.
malloc_lenient(full, s) ==
    IF ~full
    THEN [ret |-> static_block, full |-> TRUE, exit |-> FALSE]
    ELSE [ret |-> NULL, full |-> full, exit |-> FALSE]

\* Faulty variant: the size is checked before the flag.
malloc_size_first(full, s) ==
    IF s # REQUIRED_SIZE
    THEN [ret |-> NULL, full |-> full, exit |-> TRUE]
    ELSE IF ~full
         THEN [ret |-> static_block, full |-> TRUE, exit |-> FALSE]
         ELSE [ret |-> NULL, full |-> full, exit |-> FALSE]

malloc(full, s) ==
    IF ~full
    THEN IF s # REQUIRED_SIZE
         THEN [ret |-> NULL, full |-> full, exit |-> TRUE]
         ELSE [ret |-> static_block, full |-> TRUE, exit |-> FALSE]
    ELSE [ret |-> NULL, full |-> full, exit |-> FALSE]

\* The line malloc prints, kept with its result.
Call(s, r) == [s |-> s, ret |-> r.ret, exit |-> r.exit]

(* ------------------- boost::simple_segregated_storage ----------------- *)

\* The chunk addresses segregate() links in a block of sz bytes.
chunks_of(block, sz, partition_sz) ==
    { block + k * partition_sz : k \in 0..((sz \div partition_sz) - 1) }

\* segregate(block, sz, partition_sz, end): every chunk points at the next
\* one, the last at end.
segregate(m, block, sz, partition_sz, end) ==
    LET cs == chunks_of(block, sz, partition_sz)
        old == block + ((sz - partition_sz) \div partition_sz) * partition_sz
    IN [a \in (DOMAIN m) \cup cs |->
          IF a \in cs
          THEN Link(IF a = old THEN end ELSE a + partition_sz)
          ELSE m[a]]

\* find_prev(ptr): the free chunk after which ptr belongs, NULL for the front.
RECURSIVE find_prev_from(_, _, _, _)
find_prev_from(m, iter, ptr, fuel) ==
    IF fuel = 0 \/ nextof(m, iter) = NULL \/ nextof(m, iter) > ptr
    THEN iter
    ELSE find_prev_from(m, nextof(m, iter), ptr, fuel - 1)

find_prev(m, first, ptr) ==
    IF first = NULL \/ first > ptr
    THEN NULL
    ELSE find_prev_from(m, first, ptr, Cardinality(DOMAIN m))

\* Faulty variant: the unordered free(), which always links at the front.
ordered_free_front(m, first, chunk) ==
    [first |-> chunk, mem |-> Store(m, chunk, Link(first))]

\* Faulty variant: the chunk gets its link but the list head is not moved.
ordered_free_unlinked(m, first, chunk) ==
    [first |-> first, mem |-> Store(m, chunk, Link(first))]

\* ordered_free(chunk): link chunk into the free list at its place by address.
\* Yields the new first and the new memory.
ordered_free(m, first, chunk) ==
    LET loc == find_prev(m, first, chunk)
    IN IF loc = NULL
       THEN [first |-> chunk, mem |-> Store(m, chunk, Link(first))]
       ELSE [first |-> first,
             mem   |-> Store(Store(m, chunk, Link(nextof(m, loc))), loc, Link(chunk))]

\* The free list as the sequence of addresses reached from first.
RECURSIVE free_list_from(_, _, _)
free_list_from(m, a, fuel) ==
    IF a = NULL \/ fuel = 0
    THEN << >>
    ELSE << a >> \o free_list_from(m, nextof(m, a), fuel - 1)

free_list(m, first) == free_list_from(m, first, Cardinality(DOMAIN m) + 1)

(* ------------------------------ Thing --------------------------------- *)

\* Faulty variant: the default constructor Thing() : p(0) is run instead.
Thing_ctor_default(m, a, i) == Store(m, a, ThingAt(0))

\* Thing(int i) : p(i), constructed in place at address a.
Thing_ctor(m, a, i) == Store(m, a, ThingAt(i))

\* ~Thing() prints "holding int p": the int read from the object's storage.
Thing_dtor(m, a) == [addr |-> a, p |-> nextof(m, a)]

(* ---------------------------- boost::pool ----------------------------- *)

\* lcm of sizeof(size_type) and the size of a pointer: equal on this build.
min_alloc_size == sizeof_size_type

min_align == sizeof_size_type

\* object_pool(arg_next_size, arg_max_size): pool<UserAllocator>(sizeof(T), ...),
\* with no block and an empty free list.
object_pool(arg_next_size, arg_max_size) ==
    [requested_size |-> sizeof_Thing,
     next_size      |-> arg_next_size,
     start_size     |-> arg_next_size,
     max_size       |-> arg_max_size,
     list           |-> [ptr |-> NULL, sz |-> 0],
     first          |-> NULL]

\* Faulty variant: the chunk size is the requested size, sizeof(Thing).
alloc_size_plain(p) == p.requested_size

\* alloc_size(): the chunk size, requested_size raised to hold a link and
\* rounded up to min_align.
alloc_size(p) ==
    LET s   == Max(p.requested_size, min_alloc_size)
        rem == s % min_align
    IN IF rem # 0 THEN s + (min_align - rem) ELSE s

\* The bytes of a block that is to hold n chunks: the chunks, then the
\* trailer (pointer to the next block, and its size).
POD_size(p, n) == n * alloc_size(p) + min_alloc_size + sizeof_size_type

\* Faulty variant: the trailer is sliced into chunks as well.
element_size_whole(sz) == sz

\* PODptr::element_size(): the block without its trailer.
element_size(sz) == sz - sizeof_size_type - min_alloc_size

\* The growth of next_size after a block was obtained.
grown_next_size(p) ==
    LET partition_size == alloc_size(p)
    IN IF p.max_size = 0
       THEN p.next_size * 2
       ELSE IF (p.next_size * partition_size) \div p.requested_size < p.max_size
            THEN Min(p.next_size * 2,
                     (p.max_size * p.requested_size) \div partition_size)
            ELSE p.next_size

\* The tail of ordered_malloc_need_resize once malloc returned ptr # NULL:
\* slice the block into the free list, record the block, pop the first chunk.
take_block(p, m, ptr, sz) ==
    LET partition_size == alloc_size(p)
        m1    == segregate(m, ptr, element_size(sz), partition_size, p.first)
        first == ptr
    IN [ret  |-> first,
        mem  |-> m1,
        pool |-> [p EXCEPT !.next_size = grown_next_size(p),
                           !.list = [ptr |-> ptr, sz |-> sz],
                           !.first = nextof(m1, first)]]

Refused(p, m, full, calls) ==
    [ret |-> NULL, pool |-> p, mem |-> m, full |-> full, exit |-> FALSE, calls |-> calls]

Exited(p, m, full, calls) ==
    [ret |-> NULL, pool |-> p, mem |-> m, full |-> full, exit |-> TRUE, calls |-> calls]

Granted(b, full, calls) ==
    [ret |-> b.ret, pool |-> b.pool, mem |-> b.mem, full |-> full, exit |-> FALSE,
     calls |-> calls]

\* ordered_malloc_need_resize(): ask the allocator for a block of next_size
\* chunks; if refused and next_size > 4, halve next_size and ask once more.
ordered_malloc_need_resize(p, m, full) ==
    LET sz1 == POD_size(p, p.next_size)
        r1  == malloc(full, sz1)
        c1  == << Call(sz1, r1) >>
    IN IF r1.exit THEN Exited(p, m, r1.full, c1)
       ELSE IF r1.ret # NULL THEN Granted(take_block(p, m, r1.ret, sz1), r1.full, c1)
       ELSE IF p.next_size > 4
            THEN LET p2  == [p EXCEPT !.next_size = p.next_size \div 2]
                     sz2 == POD_size(p2, p2.next_size)
                     r2  == malloc(r1.full, sz2)
                     c2  == c1 \o << Call(sz2, r2) >>
                 IN IF r2.exit THEN Exited(p2, m, r2.full, c2)
                    ELSE IF r2.ret # NULL
                         THEN Granted(take_block(p2, m, r2.ret, sz2), r2.full, c2)
                         ELSE Refused(p2, m, r2.full, c2)
            ELSE Refused(p, m, r1.full, c1)

\* ordered_malloc(): pop the head of the free list, or get a block first.
ordered_malloc(p, m, full) ==
    IF p.first # NULL
    THEN [ret |-> p.first, pool |-> [p EXCEPT !.first = nextof(m, p.first)],
          mem |-> m, full |-> full, exit |-> FALSE, calls |-> << >>]
    ELSE ordered_malloc_need_resize(p, m, full)

\* Faulty variant: free marks the block as available again.
free_resets(full, block) == FALSE

\* StaticUserAllocator::free(block): prints a line and does nothing; yields
\* the flag as it leaves it.
free(full, block) == full

\* Faulty variant: the walk ignores the free list and destructs every chunk.
dtor_walk_all(m, i, end, partition_size, freed_iter) ==
    [k \in 1..((end - i) \div partition_size) |-> i + (k - 1) * partition_size]

\* ~object_pool(): the addresses it destructs, walking the block's chunks in
\* address order beside the (ordered) free list.
RECURSIVE dtor_walk(_, _, _, _, _)
dtor_walk(m, i, end, partition_size, freed_iter) ==
    IF i >= end
    THEN << >>
    ELSE IF i = freed_iter
         THEN dtor_walk(m, i + partition_size, end, partition_size,
                        nextof(m, freed_iter))
         ELSE << i >> \o dtor_walk(m, i + partition_size, end, partition_size,
                                  freed_iter)

(* ------------------- the operations on the pool ----------------------- *)

\* What an operation reports: its result, the malloc calls it made, the
\* destructor lines it printed, the blocks it passed to free.
Report(op, arg, ret, returned, calls, dtor_out, freed) ==
    [op |-> op, arg |-> arg, ret |-> ret, returned |-> returned,
     calls |-> calls, dtor_out |-> dtor_out, freed |-> freed]

Occupied == DOMAIN live

Without(f, S) == [a \in (DOMAIN f) \ S |-> f[a]]

Range(q) == { q[k] : k \in 1..Len(q) }

NumGranted(calls) == Cardinality({ k \in 1..Len(calls) : calls[k].ret # NULL })

\* boost::object_pool<Thing, StaticUserAllocator> pool(CAPACITY, CAPACITY):
\* no allocator call is made here.
pool_ctor ==
    /\ pool' = object_pool(capacity, capacity)
    /\ last' = Report("pool", 0, NULL, TRUE, << >>, << >>, << >>)
    /\ UNCHANGED << static_block, StaticUserAllocator_full, capacity, mem, live,
                    ctors, dtors, grants >>

\* pool.construct(v): ret = malloc(); if (ret == 0) return ret; new (ret) Thing(v).
construct(v) ==
    LET r == ordered_malloc(pool, mem, StaticUserAllocator_full)
    IN /\ StaticUserAllocator_full' = r.full
       /\ pool' = r.pool
       /\ grants' = grants + NumGranted(r.calls)
       /\ UNCHANGED << static_block, capacity, dtors >>
       /\ IF r.exit
          THEN /\ status' = "exit1"
               /\ last' = Report("construct", v, NULL, FALSE, r.calls, << >>, << >>)
               /\ UNCHANGED << mem, live, ctors >>
          ELSE /\ status' = status
               /\ last' = Report("construct", v, r.ret, TRUE, r.calls, << >>, << >>)
               /\ IF r.ret = NULL
                  THEN UNCHANGED << mem, live, ctors >>
                  ELSE /\ mem' = Thing_ctor(r.mem, r.ret, v)
                       /\ live' = Store(live, r.ret, v)
                       /\ ctors' = ctors + 1

\* pool.destroy(chunk): chunk->~Thing(); ordered_free(chunk).
destroy_run(chunk) ==
    LET f == ordered_free(mem, pool.first, chunk)
    IN /\ last' = Report("destroy", chunk, NULL, TRUE, << >>,
                         << Thing_dtor(mem, chunk) >>, << >>)
       /\ dtors' = dtors + 1
       /\ live' = Without(live, {chunk})
       /\ mem' = f.mem
       /\ pool' = [pool EXCEPT !.first = f.first]
       /\ status' = status
       /\ UNCHANGED << static_block, StaticUserAllocator_full, capacity, ctors, grants >>

\* destroy of a pointer that is no live Thing of this pool is undefined: the
\* build may fault, or run the same code on whatever is there.
destroy(chunk) ==
    IF chunk \in Occupied
    THEN destroy_run(chunk)
    ELSE \/ destroy_run(chunk)
         \/ /\ status' = "fault"
            /\ last' = Report("destroy", chunk, NULL, FALSE, << >>, << >>, << >>)
            /\ UNCHANGED << static_block, StaticUserAllocator_full, capacity, pool,
                            mem, live, ctors, dtors, grants >>

\* Faulty variant: the block is released without destructing what is in it.
pool_dtor_leaky ==
    /\ status' = status
    /\ UNCHANGED << static_block, capacity, mem, ctors, grants, live, dtors >>
    /\ last' = Report("teardown", 0, NULL, TRUE, << >>, << >>, << pool.list.ptr >>)
    /\ StaticUserAllocator_full' = free(StaticUserAllocator_full, pool.list.ptr)
    /\ pool' = [pool EXCEPT !.list = [ptr |-> NULL, sz |-> 0]]

\* ~object_pool() at the end of main's block: nothing without a block; else
\* destruct every chunk that is not in the free list, free the block, forget it.
pool_dtor ==
    /\ status' = status
    /\ UNCHANGED << static_block, capacity, mem, ctors, grants >>
    /\ IF pool.list.ptr = NULL
       THEN /\ last' = Report("teardown", 0, NULL, TRUE, << >>, << >>, << >>)
            /\ UNCHANGED << StaticUserAllocator_full, pool, live, dtors >>
       ELSE LET begin == pool.list.ptr
                walk  == dtor_walk(mem, begin, begin + element_size(pool.list.sz),
                                   alloc_size(pool), pool.first)
            IN /\ last' = Report("teardown", 0, NULL, TRUE, << >>,
                                 [k \in 1..Len(walk) |-> Thing_dtor(mem, walk[k])],
                                 << begin >>)
               /\ dtors' = dtors + Len(walk)
               /\ live' = Without(live, Range(walk))
               /\ StaticUserAllocator_full' = free(StaticUserAllocator_full, begin)
               /\ pool' = [pool EXCEPT !.list = [ptr |-> NULL, sz |-> 0]]

(* --------------------------- initial states --------------------------- *)

InitWith(cap, bases) ==
    /\ static_block \in bases
    /\ StaticUserAllocator_full = FALSE
    /\ capacity = cap
    /\ pool = object_pool(0, 0)
    /\ mem = << >>
    /\ live = << >>
    /\ ctors = 0
    /\ dtors = 0
    /\ grants = 0
    /\ last = Report("none", 0, NULL, TRUE, << >>, << >>, << >>)
    /\ status = "running"
    /\ t = [i \in 1..11 |-> NULL]
    /\ out = [i \in 1..11 |-> ""]

(* ------------- a caller that uses the pool in any order --------------- *)

Init == InitWith(STATIC_POOL_CAPACITY, {LowBase}) /\ pc = "start"

PoolCtor ==
    /\ status = "running" /\ pc = "start"
    /\ pool_ctor
    /\ status' = status
    /\ pc' = "pool"
    /\ UNCHANGED << t, out >>

Construct ==
    /\ status = "running" /\ pc = "pool"
    /\ ctors < MaxConstructs
    /\ \E v \in Values : construct(v)
    /\ UNCHANGED << pc, t, out >>

\* The caller destroys only handles it holds: live objects of this pool.
Destroy ==
    /\ status = "running" /\ pc = "pool"
    /\ \E chunk \in Occupied : destroy(chunk)
    /\ UNCHANGED << pc, t, out >>

Teardown ==
    /\ status = "running" /\ pc = "pool"
    /\ pool_dtor
    /\ pc' = "end"
    /\ UNCHANGED << t, out >>

Next == PoolCtor \/ Construct \/ Destroy \/ Teardown

Spec == Init /\ [][Next]_vars

\* The same caller over a pool compiled with another STATIC_POOL_CAPACITY
\* while REQUIRED_SIZE stays 64 (source lines 51-54: "This is fragile!").
InitCfg == (\E cap \in Capacities : InitWith(cap, {LowBase})) /\ pc = "start"

CfgSpec == InitCfg /\ [][Next]_vars

(* ---------- a caller that uses one pool and then another ------------- *)

\* A second object_pool<Thing, StaticUserAllocator> is created after the
\* first one's lifetime has ended: pc is "pool" within the first pool's
\* lifetime and "pool2" within the second's.
SeqPoolCtor ==
    /\ status = "running" /\ pc \in {"start", "end"}
    /\ pool_ctor
    /\ status' = status
    /\ pc' = IF pc = "start" THEN "pool" ELSE "pool2"
    /\ UNCHANGED << t, out >>

SeqConstruct ==
    /\ status = "running" /\ pc \in {"pool", "pool2"}
    /\ ctors < MaxSeqConstructs
    /\ \E v \in Values : construct(v)
    /\ UNCHANGED << pc, t, out >>

SeqDestroy ==
    /\ status = "running" /\ pc \in {"pool", "pool2"}
    /\ \E chunk \in Occupied : destroy(chunk)
    /\ UNCHANGED << pc, t, out >>

SeqTeardown ==
    /\ status = "running" /\ pc \in {"pool", "pool2"}
    /\ pool_dtor
    /\ pc' = IF pc = "pool" THEN "end" ELSE "end2"
    /\ UNCHANGED << t, out >>

SeqNext == SeqPoolCtor \/ SeqConstruct \/ SeqDestroy \/ SeqTeardown

SeqSpec == Init /\ [][SeqNext]_vars

(* -------------------------------- main -------------------------------- *)

\* The statements of main by source line, in program order.
main_lines ==
    << 114, 119, 120, 122, 123, 125, 126, 128, 129, 131, 132, 134, 135,
       138, 139, 142, 143, 145, 146, 147, 148, 149, 150, 151, 152,
       155, 156, 158, 159, 161, 162, 165, 173, 175, 176 >>

next_line(l) ==
    LET k == CHOOSE j \in 1..Len(main_lines) : main_lines[j] = l
    IN main_lines[k + 1]

\* Thing *tN = pool.construct(N);
construct_line == << 119, 122, 125, 128, 131, 134, 138, 142, 155, 158, 161 >>

\* std::cout << "tN is " << (tN ? "not null" : "null") << '\n';
print_line == << 120, 123, 126, 129, 132, 135, 139, 143, 156, 159, 162 >>

\* if (tN) pool.destroy(tN);  -- line and N
destroy_line ==
    { << 145, 1 >>, << 146, 2 >>, << 147, 3 >>, << 148, 4 >>, << 149, 5 >>,
      << 150, 6 >>, << 151, 7 >>, << 152, 8 >>, << 165, 10 >> }

MainInit == InitWith(STATIC_POOL_CAPACITY, Bases) /\ pc = 114

MainPool ==
    /\ status = "running" /\ pc = 114
    /\ pool_ctor
    /\ status' = status
    /\ pc' = next_line(pc)
    /\ UNCHANGED << t, out >>

MainConstruct ==
    /\ status = "running"
    /\ \E i \in 1..Len(construct_line) :
          /\ pc = construct_line[i]
          /\ construct(i)
          /\ IF last'.returned
             THEN t' = [t EXCEPT ![i] = last'.ret] /\ pc' = next_line(pc)
             ELSE UNCHANGED << t, pc >>
    /\ UNCHANGED out

MainPrint ==
    /\ status = "running"
    /\ \E i \in 1..Len(print_line) :
          /\ pc = print_line[i]
          /\ out' = [out EXCEPT ![i] = IF t[i] # NULL THEN "not null" ELSE "null"]
    /\ pc' = next_line(pc)
    /\ UNCHANGED << static_block, StaticUserAllocator_full, capacity, pool, mem,
                    live, ctors, dtors, grants, last, status, t >>

\* Faulty variant: the if (tN) guard left out.
guarded_destroy_unguarded(chunk) == destroy(chunk)

\* if (tN) pool.destroy(tN): the pool is not called with a null tN.

guarded_destroy(chunk) ==
    IF chunk # NULL
    THEN destroy(chunk)
    ELSE UNCHANGED << static_block, StaticUserAllocator_full, capacity, pool, mem,
                      live, ctors, dtors, grants, last, status >>

MainDestroy ==
    /\ status = "running"
    /\ \E d \in destroy_line :
          /\ pc = d[1]
          /\ guarded_destroy(t[d[2]])
    /\ pc' = IF status' = "running" THEN next_line(pc) ELSE pc
    /\ UNCHANGED << t, out >>

\* The closing brace at line 173 ends the pool's lifetime.
MainTeardown ==
    /\ status = "running" /\ pc = 173
    /\ pool_dtor
    /\ pc' = next_line(pc)
    /\ UNCHANGED << t, out >>

\* std::cout << "Program terminating normally.\n";
MainFarewell ==
    /\ status = "running" /\ pc = 175
    /\ pc' = next_line(pc)
    /\ UNCHANGED << static_block, StaticUserAllocator_full, capacity, pool, mem,
                    live, ctors, dtors, grants, last, status, t, out >>

\* return 0;
MainReturn ==
    /\ status = "running" /\ pc = 176
    /\ status' = "returned"
    /\ UNCHANGED << static_block, StaticUserAllocator_full, capacity, pool, mem,
                    live, ctors, dtors, grants, last, pc, t, out >>

MainNext ==
    MainPool \/ MainConstruct \/ MainPrint \/ MainDestroy \/ MainTeardown
        \/ MainFarewell \/ MainReturn

MainSpec == MainInit /\ [][MainNext]_vars

(* ------------------------------ claims -------------------------------- *)

\* The chunk-sized region at address a.
InBlock(a) ==
    /\ static_block <= a
    /\ a + alloc_size(pool) <= static_block + REQUIRED_SIZE

Disjoint(a, b) == a + alloc_size(pool) <= b \/ b + alloc_size(pool) <= a

\* A step of the caller that is a call of pool.construct.
ConstructStep == status = "running" /\ pc = "pool" /\ \E v \in Values : construct(v)

\* C1: a construct call returns a non-empty handle if and only if fewer than
\* Capacity slots are occupied at the moment of the call (so the first
\* Capacity constructs succeed and the next one returns the empty result).
C1_ConstructIffRoom ==
    [][ConstructStep =>
          /\ last'.returned
          /\ (last'.ret # NULL) <=> (Cardinality(Occupied) < STATIC_POOL_CAPACITY)]_vars

\* C1 witness: Capacity constructs and no destroy, then a construct that
\* returned the empty result.
C1_Witness ==
    /\ ctors = STATIC_POOL_CAPACITY /\ dtors = 0
    /\ last.op = "construct" /\ last.returned /\ last.ret = NULL

\* C2: the number of occupied slots never exceeds Capacity, and Capacity (the
\* pool's arguments, and the number of slots cut from the block) never changes.
C2_AtMostCapacity ==
    /\ Cardinality(Occupied) <= STATIC_POOL_CAPACITY
    /\ capacity = STATIC_POOL_CAPACITY
    /\ pc # "start" => pool.start_size = capacity /\ pool.max_size = capacity
    /\ Cardinality(DOMAIN mem) \in {0, STATIC_POOL_CAPACITY}

\* C2 witness: the pool is full after more than Capacity constructions.
C2_Witness ==
    /\ Cardinality(Occupied) = STATIC_POOL_CAPACITY
    /\ ctors > STATIC_POOL_CAPACITY

\* C3: the occupied slots lie inside static_block and do not overlap, and no
\* construct returns the address of a slot that is still occupied.
C3_DistinctInBlock ==
    /\ [](/\ \A a \in Occupied : InBlock(a)
          /\ \A a, b \in Occupied : a # b => Disjoint(a, b))
    /\ [][ConstructStep => last'.ret \notin Occupied]_vars

\* C3 witness: a construct has just filled the last slot of the block.
C3_Witness ==
    /\ last.op = "construct" /\ last.ret # NULL
    /\ Cardinality(Occupied) = STATIC_POOL_CAPACITY
    /\ static_block + REQUIRED_SIZE - last.ret <= 3 * alloc_size(pool)

\* The malloc calls of the latest operation from the k-th on are refusals.
RefusedFrom(calls, k) ==
    \A j \in k..Len(calls) : calls[j].ret = NULL /\ ~calls[j].exit

\* C4: the first malloc call whose size is REQUIRED_SIZE returns static_block
\* and sets the flag; every later call returns nullptr whatever its size and
\* does not terminate the process.
C4_GrantOnceThenRefuse ==
    [][/\ (~StaticUserAllocator_full /\ last'.calls # << >>
              /\ last'.calls[1].s = REQUIRED_SIZE)
          => /\ last'.calls[1].ret = static_block
             /\ StaticUserAllocator_full'
             /\ RefusedFrom(last'.calls, 2)
       /\ StaticUserAllocator_full
          => /\ StaticUserAllocator_full'
             /\ RefusedFrom(last'.calls, 1)
             /\ status' # "exit1"]_vars

\* C4 witness: after the grant, a request of another size was refused.
C4_Witness ==
    /\ grants = 1 /\ StaticUserAllocator_full /\ status = "running"
    /\ \E k \in 1..Len(last.calls) :
          last.calls[k].s # REQUIRED_SIZE /\ last.calls[k].ret = NULL

\* C5: a chunk request of a size other than REQUIRED_SIZE that arrives while
\* the flag is unset ends the process with exit(1): no block is granted, the
\* flag stays unset, and the construct that asked does not return.
C5_MismatchExits ==
    [][(~StaticUserAllocator_full /\ last'.calls # << >>
           /\ last'.calls[1].s # REQUIRED_SIZE)
       => /\ status' = "exit1"
          /\ Len(last'.calls) = 1
          /\ last'.calls[1].ret = NULL /\ last'.calls[1].exit
          /\ ~StaticUserAllocator_full'
          /\ grants' = grants
          /\ last'.op = "construct" /\ ~last'.returned
          /\ live' = live /\ ctors' = ctors]_vars

\* C5 witness: the first construct of a pool whose first request is not
\* REQUIRED_SIZE has ended the process.
C5_Witness ==
    /\ status = "exit1" /\ ~StaticUserAllocator_full
    /\ last.op = "construct" /\ ~last.returned
    /\ last.calls # << >> /\ last.calls[1].s # REQUIRED_SIZE

\* C6: the construct that follows a destroy succeeds, and when the destroyed
\* slot is the only free one it returns that slot's address.
C6_ReuseAfterDestroy ==
    [][(last.op = "destroy" /\ ConstructStep)
       => /\ last'.returned /\ last'.ret # NULL
          /\ Cardinality(Occupied) = STATIC_POOL_CAPACITY - 1
             => last'.ret = last.arg]_vars

\* C6 witness: one destroy in a full pool, then a construct that filled the
\* pool again.
C6_Witness ==
    /\ ctors = STATIC_POOL_CAPACITY + 1 /\ dtors = 1
    /\ Cardinality(Occupied) = STATIC_POOL_CAPACITY
    /\ last.op = "construct" /\ last.ret # NULL

DtorAddrs(r) == { r.dtor_out[k].addr : k \in 1..Len(r.dtor_out) }

\* C7: every constructed Thing is destructed exactly once, by its destroy or
\* by teardown: a step destructs only occupied slots, each once, and after
\* teardown the destructor count equals the constructor count.
C7_DestructedOnce ==
    /\ [](/\ dtors + Cardinality(Occupied) = ctors
          /\ pc = "end" => (dtors = ctors /\ Occupied = {}))
    /\ [][/\ dtors' = dtors + Len(last'.dtor_out)
          /\ Cardinality(DtorAddrs(last')) = Len(last'.dtor_out)
          /\ DtorAddrs(last') \subseteq Occupied
          /\ Occupied' \cap DtorAddrs(last') = {}]_vars

\* C7 witness: teardown destructed at least two Things after at least one
\* was destroyed by the caller.
C7_Witness ==
    /\ pc = "end" /\ last.op = "teardown"
    /\ Len(last.dtor_out) >= 2
    /\ dtors > Len(last.dtor_out)

\* C8: from construct(v) until its destroy or teardown a Thing stays at its
\* address holding v, whatever is done to other slots, and its destructor
\* reports v.
C8_StableValue ==
    /\ [](\A a \in Occupied : a \in DOMAIN mem /\ mem[a] = ThingAt(live[a]))
    /\ [][\A a \in Occupied :
            \/ a \in Occupied' /\ live'[a] = live[a] /\ mem'[a] = mem[a]
            \/ \E k \in 1..Len(last'.dtor_out) :
                  last'.dtor_out[k] = [addr |-> a, p |-> live[a]]]_vars

\* C8 witness: a Thing holding MaxValue was destroyed while a Thing holding
\* another value, constructed before it, is still in place.
C8_Witness ==
    /\ last.op = "destroy" /\ last.dtor_out[1].p = MaxValue
    /\ \E a \in Occupied : live[a] # MaxValue /\ a < last.arg
    /\ pool.next_size # pool.start_size

NotNullLine(i) == IF i \in {7, 8} THEN "null" ELSE "not null"

\* C9: main's run: t1..t6 are not null, t7 and t8 are null, the guarded
\* destroys of t1..t8 destroy exactly the six live objects, t9, t10 and t11
\* are not null, t10 is destroyed, teardown destructs exactly t9 and t11, and
\* main returns 0 without exit(1) or a fault on the way.
C9_MainRun ==
    /\ status \in {"running", "returned"}
    /\ status = "running" => ENABLED MainNext
    /\ \A i \in 1..11 : out[i] \in {"", NotNullLine(i)}
    /\ pc = 145 => /\ \A i \in 1..6 : t[i] \in Occupied
                   /\ \A i, j \in 1..6 : i # j => t[i] # t[j]
                   /\ t[7] = NULL /\ t[8] = NULL
                   /\ Cardinality(Occupied) = 6
    /\ pc = 155 => dtors = 6 /\ Occupied = {}
    /\ pc = 165 => /\ Occupied = {t[9], t[10], t[11]}
                   /\ Cardinality(Occupied) = 3
    /\ pc = 173 => dtors = 7 /\ Occupied = {t[9], t[11]} /\ t[9] # t[11]
    /\ pc \in {175, 176}
          => /\ last.op = "teardown"
             /\ DtorAddrs(last) = {t[9], t[11]}
             /\ Len(last.dtor_out) = 2
             /\ \A k \in 1..2 : last.dtor_out[k].p \in {9, 11}
             /\ dtors = 9 /\ ctors = 9 /\ Occupied = {}
    /\ status = "returned"
          => /\ pc = 176
             /\ out = [i \in 1..11 |-> NotNullLine(i)]

\* C9 witness: main has returned 0.
C9_Witness == status = "returned" /\ pc = 176 /\ dtors = 9

\* C10: destroy is never called with an empty handle: main's guard skips the
\* call, and the skipped attempt changes neither the occupied set nor the
\* free list and runs no destructor.
C10_NoDestroyOfNull ==
    /\ [](last.op = "destroy" => last.arg # NULL /\ last.returned)
    /\ [][\A d \in destroy_line :
            (pc = d[1] /\ t[d[2]] = NULL)
            => /\ live' = live /\ pool' = pool /\ mem' = mem
               /\ dtors' = dtors /\ last' = last
               /\ status' = "running"]_vars

\* C10 witness: the guarded destroys of the null t7 and t8 have been passed.
C10_Witness ==
    /\ pc = 155 /\ t[7] = NULL /\ t[8] = NULL
    /\ last.op = "destroy" /\ last.arg = t[6]


\* The slots: the chunks the block was cut into.
Slots == DOMAIN mem

FreeSlots == Range(free_list(mem, pool.first))

SlotAddresses ==
    { static_block + i * alloc_size(pool) : i \in 0..(STATIC_POOL_CAPACITY - 1) }

\* C11: while the pool exists, a slot is in the free list if and only if it
\* is not occupied, and every free-list entry is one of the Capacity slot
\* addresses inside static_block.
C11_FreeListInvariant ==
    pc = "pool"
       => /\ \A a \in Slots : (a \in FreeSlots) <=> (a \notin Occupied)
          /\ Occupied \subseteq Slots
          /\ FreeSlots \subseteq SlotAddresses
          /\ \A a \in FreeSlots : InBlock(a)
          /\ Len(free_list(mem, pool.first)) = Cardinality(FreeSlots)

\* C11 witness: destroys have left free slots between occupied ones.
C11_Witness ==
    /\ pc = "pool" /\ last.op = "destroy"
    /\ Cardinality(FreeSlots) >= 2
    /\ \E a \in Occupied : \E f, g \in FreeSlots : f < a /\ a < g

\* C12: a slot only goes from free to occupied, by a successful construct
\* that returns it, and from occupied to free, by the destructor run of a
\* destroy or of teardown; no occupied slot is constructed again and no free
\* slot is destructed.
C12_SlotStateMachine ==
    [][/\ \A a \in Occupied' \ Occupied :
             /\ last'.op = "construct" /\ last'.ret = a
             /\ a \in FreeSlots \/ pool.first = NULL
       /\ \A a \in Occupied \ Occupied' :
             /\ last'.op \in {"destroy", "teardown"}
             /\ a \in DtorAddrs(last')
       /\ (last'.op = "construct" /\ last'.ret # NULL)
             => /\ last'.ret \notin Occupied
                /\ Occupied' = Occupied \cup {last'.ret}
       /\ last'.op \in {"destroy", "teardown"}
             => /\ DtorAddrs(last') \subseteq Occupied
                /\ Cardinality(DtorAddrs(last')) = Len(last'.dtor_out)
                /\ Occupied' = Occupied \ DtorAddrs(last')]_vars

\* C12 witness: the first slot was constructed, destroyed and constructed
\* again while another slot stayed occupied.
C12_Witness ==
    /\ last.op = "construct" /\ last.ret = static_block
    /\ dtors >= 1 /\ Cardinality(Occupied) >= 2


\* C13 as claimed: over the pool's lifetime, from its construction to its
\* teardown, exactly one malloc call returns static_block.
C13_ExactlyOneAcquisition == pc = "end" => grants = 1

\* C13 as amended: at most one malloc call ever returns static_block; the
\* pool asks for it in its first construct call, so there is exactly one from
\* the first construct on and none in a pool torn down unused.
C13_AtMostOneAcquisition ==
    /\ [](/\ grants <= 1
          /\ (grants = 1) <=> StaticUserAllocator_full
          /\ (grants = 1) <=> (Slots # {})
          /\ ctors > 0 => grants = 1
          /\ last.op = "pool" => grants = 0)
    /\ [][ConstructStep => grants' = 1]_vars

\* C13 witness: a pool torn down after it was filled, emptied in part and
\* refilled, with one acquisition in all.
C13_Witness ==
    /\ pc = "end" /\ grants = 1
    /\ ctors > STATIC_POOL_CAPACITY

\* C14: a construct call that yields no handle returns the empty result
\* without ending the process, runs no Thing constructor and leaves the
\* occupied slots, their values and the exhaustion flag as they were, also
\* when its chunk requests have a size other than REQUIRED_SIZE.
C14_ExhaustedConstruct ==
    [][(ConstructStep /\ last'.ret = NULL)
       => /\ last'.returned /\ status' = "running"
          /\ ctors' = ctors /\ dtors' = dtors
          /\ live' = live /\ mem' = mem
          /\ StaticUserAllocator_full' = StaticUserAllocator_full
          /\ pool'.first = pool.first /\ pool'.list = pool.list
          /\ last'.calls # << >> /\ RefusedFrom(last'.calls, 1)]_vars

\* C14 witness: a construct on the full pool returned empty after a request
\* of REQUIRED_SIZE and a retry with a smaller size were both refused.
C14_Witness ==
    /\ last.op = "construct" /\ last.returned /\ last.ret = NULL
    /\ Cardinality(Occupied) = STATIC_POOL_CAPACITY
    /\ Len(last.calls) = 2
    /\ last.calls[1].s = REQUIRED_SIZE /\ last.calls[2].s # REQUIRED_SIZE
    /\ status = "running"


\* A construct call on either pool of SeqSpec.
SeqConstructStep ==
    status = "running" /\ pc \in {"pool", "pool2"} /\ \E v \in Values : construct(v)

\* The second pool exists and holds no block, while static_block was granted:
\* the first pool acquired it, and released it with free at its teardown.
AfterFirstPoolsBlock == pc = "pool2" /\ grants = 1 /\ pool.list.ptr = NULL

\* C15: StaticUserAllocator::free is a no-op: the teardown that calls it
\* leaves the flag, the block's contents and the free list as they were (the
\* destructors it runs aside), and a malloc call made after free is refused.
C15_FreeIsNoOp ==
    /\ [][(last'.op = "teardown" /\ last'.freed # << >>)
          => /\ last'.freed = << static_block >>
             /\ StaticUserAllocator_full' = StaticUserAllocator_full
             /\ StaticUserAllocator_full'
             /\ mem' = mem /\ pool'.first = pool.first
             /\ grants' = grants
             /\ Occupied' = Occupied \ DtorAddrs(last')]_vars
    /\ [][(AfterFirstPoolsBlock /\ SeqConstructStep)
          => /\ last'.calls # << >> /\ RefusedFrom(last'.calls, 1)
             /\ StaticUserAllocator_full']_vars

\* C15 witness: after the first pool's teardown passed the block to free,
\* the second pool's requests of 64 and 40 bytes were both refused.
C15_Witness ==
    /\ AfterFirstPoolsBlock /\ last.op = "construct"
    /\ Len(last.calls) = 2 /\ last.calls[1].s = REQUIRED_SIZE
    /\ RefusedFrom(last.calls, 1)
    /\ dtors >= 1

SizeMismatch ==
    POD_size(object_pool(capacity, capacity), capacity) # REQUIRED_SIZE

\* C17 as claimed: with a block whose size does not match the pool's first
\* request, the process ends at pool construction, before any construct call.
C17_AbortAtPoolConstruction ==
    SizeMismatch => (pc = "start" \/ status = "exit1") /\ last.op # "construct"

\* C17 as amended: with such a block the pool's construction makes no chunk
\* request and completes; the process ends with exit(1) inside the first
\* construct call, which does not return, so no Thing is ever constructed.
C17_AbortAtFirstConstruct ==
    /\ [](SizeMismatch
             => /\ ctors = 0 /\ Occupied = {} /\ grants = 0
                /\ ~StaticUserAllocator_full
                /\ (status = "exit1") <=> (last.op = "construct")
                /\ last.op = "construct" => ~last.returned
                /\ last.op = "pool" => (status = "running" /\ last.calls = << >>))
    /\ [][(SizeMismatch /\ ConstructStep) => status' = "exit1"]_vars

\* C17 witness: a pool compiled for another capacity ended the process in
\* its first construct call.
C17_Witness ==
    /\ SizeMismatch /\ status = "exit1" /\ pc = "pool"
    /\ last.op = "construct" /\ Len(last.calls) = 1 /\ last.calls[1].exit

\* C18: every construct call ends after finitely many chunk requests: at most
\* two, the second (made only after a refusal) for a smaller size, and once
\* next_size is no more than 4 only one; when all are refused construct
\* returns the empty result.
C18_ConstructTerminates ==
    /\ [](last.op = "construct"
             => /\ Len(last.calls) <= 2
                /\ Len(last.calls) = 2
                      => /\ last.calls[1].ret = NULL
                         /\ last.calls[2].s < last.calls[1].s
                /\ (last.calls # << >> /\ last.calls[1].ret = NULL)
                      => /\ last.returned /\ last.ret = NULL
                         /\ RefusedFrom(last.calls, 1)
                         /\ pool.next_size <= 4
                /\ last.returned /\ status = "running")
    /\ [][(ConstructStep /\ pool.next_size <= 4) => Len(last'.calls) <= 1]_vars

\* C18 witness: on the full pool a construct made one refused request only,
\* the retrying having stopped.
C18_Witness ==
    /\ last.op = "construct" /\ last.returned /\ last.ret = NULL
    /\ Len(last.calls) = 1 /\ last.calls[1].s < REQUIRED_SIZE
    /\ Cardinality(Occupied) = STATIC_POOL_CAPACITY

RoundUp(n, a) == ((n + a - 1) \div a) * a

SlotsOfSize(slot_size) ==
    { static_block + i * slot_size : i \in 0..(STATIC_POOL_CAPACITY - 1) }

\* The pool's slicing overhead: the block's trailer of a pointer and a size.
SlicingOverhead == min_alloc_size + sizeof_size_type

\* sizeof(Thing) rounded up to alignof(Thing).
ThingSlotSize == RoundUp(sizeof_Thing, alignof_Thing)

\* sizeof(Thing) raised to the size of a pointer, rounded up to its alignment.
ChunkSlotSize == RoundUp(Max(sizeof_Thing, sizeof_size_type), sizeof_size_type)

\* C19 as claimed: the first chunk request is for REQUIRED_SIZE bytes, slot i
\* is at static_block + i * slot_size for i in 0..Capacity-1, slot_size being
\* sizeof(Thing) rounded up to alignof(Thing), and Capacity * slot_size plus
\* the slicing overhead is the block size.
C19_SlotSizeOfThing ==
    Slots # {}
       => /\ Slots = SlotsOfSize(ThingSlotSize)
          /\ STATIC_POOL_CAPACITY * ThingSlotSize + SlicingOverhead = REQUIRED_SIZE

\* C19 as amended: as claimed, but slot_size is the pool's chunk size:
\* sizeof(Thing) raised to at least the size of a pointer and rounded up to
\* the alignment of a pointer, 8 bytes, so that 6 * 8 + 16 = 64.
C19_SlotSizeOfChunk ==
    /\ [](/\ Slots # {} => Slots = SlotsOfSize(ChunkSlotSize)
          /\ Occupied \subseteq SlotsOfSize(ChunkSlotSize)
          /\ STATIC_POOL_CAPACITY * ChunkSlotSize + SlicingOverhead = REQUIRED_SIZE
          /\ ChunkSlotSize # ThingSlotSize)
    /\ [][(ConstructStep /\ ~StaticUserAllocator_full)
          => /\ last'.calls # << >>
             /\ last'.calls[1].s = REQUIRED_SIZE
             /\ last'.ret = static_block]_vars

\* C19 witness: the last slot, at static_block + 5 * 8, is occupied.
C19_Witness ==
    /\ last.op = "construct"
    /\ last.ret = static_block + (STATIC_POOL_CAPACITY - 1) * sizeof_size_type
    /\ last.ret \in Occupied
    /\ last.ret + sizeof_size_type + SlicingOverhead = static_block + REQUIRED_SIZE

====
